---- MODULE Spec2Model ----
(***************************************************************************)
(* jq-live: the dispatch loop of main.go, the Termbox display of ui/ui.go  *)
(* and the Shell processor of json/shell.go.                               *)
(*                                                                         *)
(* Strings are Go strings: sequences of bytes (0..255).  Runes are code    *)
(* points.  The code points of the model are below 2048, so an encoding    *)
(* has one or two bytes.  A channel is a number: 0 is the nil channel,     *)
(* 1, 2, ... are the channels made by Events, in order.                    *)
(***************************************************************************)
EXTENDS Integers, Sequences, FiniteSets, TLC

\* ---------------------------------------------------------------- bounds
\* Number of terminal events PollEvent returns in a session.
MaxKeys == 3
\* Number of driver faults (panics inside PollEvent) in a session.
MaxFaults == 1
\* termbox.Size(): columns and rows of the terminal.
GridW == 11
GridH == 4

\* ------------------------------------------------------- Action (ui.go)
ActionExit == 0
ActionInput == 1
ActionInputBackspace == 2
ActionPrint == 3
ActionSaveInput == 4
ActionSavePrompt == 5
ActionSavePromptBackspace == 6
ActionSaveSubmit == 7
ActionSubmit == 8
ActionToggleCompact == 9
ActionToggleRaw == 10

\* const filePrompt = "save to: "
filePrompt == <<115, 97, 118, 101, 32, 116, 111, 58, 32>>

\* utf8.RuneError, and its encoding "\xef\xbf\xbd"
RuneError == 65533

\* ----------------------------------------------------------------- UTF-8
\* string(r) for a rune r: the UTF-8 encoding (fmt.Sprintf("%s%s", s, string(r)))
EncodeRune(r) ==
  IF r < 128 THEN <<r>>
  ELSE <<192 + (r \div 64), 128 + (r % 64)>>

IsCont(b) == b >= 128 /\ b <= 191

\* One step of bufio.ScanRunes at byte i of s followed by
\* utf8.DecodeRune(scanner.Bytes()): the rune r, the bytes adv taken from s,
\* and the width w DecodeRune reports for the token.  For an invalid
\* encoding ScanRunes takes one byte and yields the token "\xef\xbf\xbd", which
\* decodes to RuneError with width 3.
ScanRune(s, i) ==
  IF s[i] < 128 THEN [r |-> s[i], adv |-> 1, w |-> 1]
  ELSE IF s[i] >= 194 /\ s[i] <= 223 /\ i + 1 <= Len(s) /\ IsCont(s[i + 1])
       THEN [r |-> (s[i] - 192) * 64 + (s[i + 1] - 128), adv |-> 2, w |-> 2]
       ELSE [r |-> RuneError, adv |-> 1, w |-> 3]

\* One step of bufio.Reader.ReadRune at byte i of s: an invalid encoding
\* gives RuneError with width 1.
ReadRune(s, i) ==
  IF s[i] < 128 THEN [r |-> s[i], w |-> 1]
  ELSE IF s[i] >= 194 /\ s[i] <= 223 /\ i + 1 <= Len(s) /\ IsCont(s[i + 1])
       THEN [r |-> (s[i] - 192) * 64 + (s[i + 1] - 128), w |-> 2]
       ELSE [r |-> RuneError, w |-> 1]

\* ------------------------------------------------------- termbox buffer
\* The back buffer: cells[y][x] is the rune of column x, row y; 0 is the
\* blank written by the clearing loops.
Cols == 0 .. (GridW - 1)
Rows == 0 .. (GridH - 1)

\* termbox.SetCell: out of range coordinates are ignored
SetCell(cells, x, y, r) ==
  IF x \in Cols /\ y \in Rows
  THEN [cells EXCEPT ![y] = [@ EXCEPT ![x] = r]]
  ELSE cells

\* the loop "for scanner.Scan() { r, w := DecodeRune; SetCell(x, 0, r); x += w }"
RECURSIVE ScanRow(_, _, _, _)
ScanRow(cells, s, i, x) ==
  IF i > Len(s) THEN cells
  ELSE LET t == ScanRune(s, i)
       IN ScanRow(SetCell(cells, x, 0, t.r), s, i + t.adv, x + t.w)

\* "for x := from; x < w; x++ { SetCell(x, y, r) }"
FillRow(cells, y, from, r) ==
  IF y \in Rows
  THEN [cells EXCEPT ![y] = [x \in Cols |-> IF x >= from THEN r ELSE @[x]]]
  ELSE cells

\* Termbox.RenderInput: the cells and the cursor after the call
RenderInput(d, scr) ==
  [cells |-> FillRow(ScanRow(scr.cells, d.Input, 1, 0), 0, Len(d.Input), 0),
   cursor |-> <<Len(d.Input), 0>>]

\* Termbox.RenderFilePrompt: nothing unless SaveInputMode
RenderFilePrompt(d, scr) ==
  IF ~d.SaveInputMode THEN scr
  ELSE LET prompt == filePrompt \o d.SavePath
       IN [cells |-> ScanRow(FillRow(scr.cells, 0, 0, 32), prompt, 1, 0),
           cursor |-> <<Len(prompt), 0>>]

\* the inner loop of RenderResults: the runes of one row, the line break included
RECURSIVE WriteRow(_, _, _, _, _)
WriteRow(cells, row, i, xPos, yPos) ==
  IF i > Len(row) THEN cells
  ELSE LET t == ReadRune(row, i)
       IN WriteRow(SetCell(cells, xPos, yPos, t.r), row, i + t.w, xPos + t.w, yPos)

\* index of the first line break of data at or after i, 0 when there is none
RECURSIVE IndexNL(_, _)
IndexNL(data, i) ==
  IF i > Len(data) THEN 0
  ELSE IF data[i] = 10 THEN i ELSE IndexNL(data, i + 1)

\* the outer loop of RenderResults: rows.ReadBytes('\n') until it errs; what
\* follows the last line break is read together with io.EOF and dropped
RECURSIVE WriteRows(_, _, _, _)
WriteRows(cells, data, i, yPos) ==
  LET nl == IndexNL(data, i)
  IN IF nl = 0 THEN cells
     ELSE WriteRows(WriteRow(cells, SubSeq(data, i, nl), 1, 0, yPos),
                    data, nl + 1, yPos + 1)

\* Termbox.RenderResults: rows 1.. cleared, then the rows of data written
RenderResults(data, scr) ==
  [cells |-> WriteRows([y \in Rows |-> IF y >= 1 THEN [x \in Cols |-> 0]
                                        ELSE scr.cells[y]],
                       data, 1, 1),
   cursor |-> scr.cursor]


\* ------------------------------------------------------ ui.go: Termbox
\* Termbox.UpdateInput
UpdateInput(d) ==
  IF d.newInput # 0
  THEN [d EXCEPT !.Input = d.Input \o EncodeRune(d.newInput),
                 !.newInput = 0, !.dirtyInput = TRUE]
  ELSE d

\* Termbox.UpdateInputBackspace: t.Input[0 : len(t.Input)-1] drops one byte
UpdateInputBackspace(d) ==
  IF Len(d.Input) = 0 THEN d
  ELSE [d EXCEPT !.Input = SubSeq(d.Input, 1, Len(d.Input) - 1),
                 !.dirtyInput = TRUE]

\* Termbox.UpdateSaveInput
UpdateSaveInput(d) ==
  IF d.newInput # 0
  THEN [d EXCEPT !.SavePath = d.SavePath \o EncodeRune(d.newInput),
                 !.newInput = 0, !.dirtyInput = TRUE]
  ELSE d

\* mutant of UpdateSaveInputBackspace: Backspace on an empty path leaves the
\* save-path mode
UpdateSaveInputBackspace_M(d) ==
  IF Len(d.SavePath) = 0 THEN [d EXCEPT !.SaveInputMode = FALSE]
  ELSE [d EXCEPT !.SavePath = SubSeq(d.SavePath, 1, Len(d.SavePath) - 1),
                 !.dirtyInput = TRUE]

\* Termbox.UpdateSaveInputBackspace
UpdateSaveInputBackspace(d) ==
  IF Len(d.SavePath) = 0 THEN d
  ELSE [d EXCEPT !.SavePath = SubSeq(d.SavePath, 1, Len(d.SavePath) - 1),
                 !.dirtyInput = TRUE]

\* ---------------------------------------------------- json/shell.go: Shell
\* The source document of the session, {"a":"b"}, and what the jq binary
\* prints for it.  jq is a function of its arguments and its standard input.
\* On the document: "" and "." print it, ".a" prints its string, ".aa",
\* ".aaa", ... (a missing key) print null.  On the JSON string "b": "" and
\* "." print it.  Every other program of the model's alphabet exits with an
\* error.
Doc == <<123, 34, 97, 34, 58, 34, 98, 34, 125>>
DocPretty == <<123, 10, 32, 32, 34, 97, 34, 58, 32, 34, 98, 34, 10, 125, 10>>
DocCompact == <<123, 34, 97, 34, 58, 34, 98, 34, 125, 10>>
Null == <<110, 117, 108, 108, 10>>
StrJSON == <<34, 98, 34, 10>>
StrRaw == <<98, 10>>

\* a program without the blanks around it, as jq reads it
RECURSIVE Trim(_)
Trim(program) ==
  IF program = <<>> THEN program
  ELSE IF Head(program) = 32 THEN Trim(Tail(program))
  ELSE IF program[Len(program)] = 32 THEN Trim(SubSeq(program, 1, Len(program) - 1))
  ELSE program

\* exec.Command("jq", args...) with cmd.Stdin = src; CombinedOutput
jq(compact, raw, program, src) ==
  LET str == IF raw THEN StrRaw ELSE StrJSON
      prg == Trim(program)
  IN IF src = Doc /\ prg \in {<<>>, <<46>>}
       THEN [out |-> IF compact THEN DocCompact ELSE DocPretty, err |-> FALSE]
     ELSE IF src = Doc /\ prg = <<46, 97>>
       THEN [out |-> str, err |-> FALSE]
     ELSE IF src = Doc /\ Len(prg) > 2 /\ prg[1] = 46
             /\ \A i \in 2 .. Len(prg) : prg[i] = 97
       THEN [out |-> Null, err |-> FALSE]
     ELSE IF src \in {StrJSON, SubSeq(StrJSON, 1, 3)} /\ prg \in {<<>>, <<46>>}
       THEN [out |-> str, err |-> FALSE]
     ELSE [out |-> <<>>, err |-> TRUE]

\* Shell.Process: "-c" if sh.compact, "-r" if sh.raw, then the program
Process(sh, source, program) == jq(sh.compact, sh.raw, program, source)

\* mutant of ToggleCompact: compact is set, not flipped
ToggleCompact_M(sh) == [sh EXCEPT !.compact = TRUE]

\* Shell.ToggleCompact
ToggleCompact(sh) == [sh EXCEPT !.compact = ~sh.compact]

\* Shell.ToggleRaw: the body assigns sh.compact
ToggleRaw(sh) == [sh EXCEPT !.compact = ~sh.compact]


\* ------------------------------------------------------------- the state
VARIABLES
  display,    \* the Termbox struct: Input, SaveInputMode, SavePath, dirtyInput, events, newInput
  screen,     \* the termbox back buffer and cursor
  termOpen,   \* termbox.Init done and termbox.Close not yet
  processor,  \* the Shell: compact, raw
  jsonData,   \* the bytes read from the source at startup
  nchan,      \* channels made so far
  closed,     \* the channels closed so far
  pollers,    \* goroutines of Events that are inside termbox.PollEvent
  senders,    \* goroutines of Events at a send statement: event, action, channel
  recovered,  \* goroutines of Events ended by their recover handler
  pc,         \* position of main: "draw", "events", "recv", "handle", "quit", "exit"
  action,     \* the action main received
  exitCode,   \* status of the process once pc = "exit"
  stdout,     \* bytes written to standard output
  fs,         \* the files under the working directory: path -> contents
  polled,     \* terminal events returned by PollEvent so far
  faults,     \* panics inside PollEvent so far
  handled,    \* the events whose action main received, in the order received
  nCalls,     \* calls of processor.Process so far
  lastCall,   \* the last call of processor.Process: arguments, options, result
  snaps,      \* what main saw when it received its last two actions
  flushLock,  \* t.flushLock is locked
  flushers,   \* the calls of Termbox.Flush in progress: caller -> position
  flushCalls  \* calls of Termbox.Flush that returned, per caller

vars == <<display, screen, termOpen, processor, jsonData, nchan, closed, pollers,
          senders, recovered, pc, action, exitCode, stdout, fs, polled, faults,
          handled, nCalls, lastCall, snaps, flushLock, flushers, flushCalls>>

goVars == <<pollers, senders, recovered>>
histVars == <<polled, faults, handled>>
flushVars == <<flushLock, flushers, flushCalls>>
callVars == <<nCalls, lastCall>>
ioVars == <<stdout, fs>>

\* the goroutines that call Termbox.Flush at the same time
NFlushers == 2
FlushCallers == 1 .. NFlushers
\* calls of Termbox.Flush each of them makes
MaxFlushCalls == 3

\* cwd, err := os.Getwd()
cwd == <<47, 119>>

\* a file that exists under the working directory before the session: "a"
OldFile == <<111, 108, 100>>

\* fmt.Sprintf("%s/%s", cwd, display.SavePath)
SaveFile(d) == cwd \o <<47>> \o d.SavePath

\* the path names the working directory itself: os.OpenFile for writing fails
IsDir(path) == path = cwd \o <<47>>

\* mutant of ProcessArgs: the output of the call before is the source
ProcessArgs_M(data, d) == [source |-> lastCall.out, program |-> d.Input]

\* the arguments of processor.Process(bytes.NewReader(jsonData), display.Input)
ProcessArgs(data, d) == [source |-> data, program |-> d.Input]

\* what is known of a call of Process when it is made
CallRecord(sh, a, res, d, open) ==
  [source |-> a.source, program |-> a.program, compact |-> sh.compact,
   raw |-> sh.raw, out |-> res.out, err |-> res.err,
   termOpen |-> open, events |-> d.events]

Init ==
  /\ \E c \in BOOLEAN, r \in BOOLEAN : processor = [compact |-> c, raw |-> r]
  /\ jsonData = Doc
  /\ display = [Input |-> <<46>>, SaveInputMode |-> FALSE, SavePath |-> <<>>,
                dirtyInput |-> TRUE, events |-> 0, newInput |-> 0]
  /\ screen = [cells |-> [y \in Rows |-> [x \in Cols |-> 0]], cursor |-> <<0, 0>>]
  /\ termOpen = TRUE
  /\ nchan = 0 /\ closed = {}
  /\ pollers = 0 /\ senders = {} /\ recovered = 0
  /\ pc = "draw" /\ action = ActionExit /\ exitCode = 0
  /\ stdout = <<>>
  /\ fs = [p \in {cwd \o <<47, 97>>} |-> OldFile]
  /\ polled = 0 /\ faults = 0 /\ handled = <<>>
  /\ nCalls = 1
  /\ lastCall = CallRecord(processor, [source |-> Doc, program |-> <<46>>],
                           Process(processor, Doc, <<46>>), display, FALSE)
  /\ snaps = <<>>
  /\ flushLock = FALSE
  /\ flushers = [c \in FlushCallers |-> "idle"]
  /\ flushCalls = [c \in FlushCallers |-> 0]

\* ------------------------------------------------- main: ends of a turn
\* the switch falls through to the next turn of the for loop
Continue == pc' = "events" /\ exitCode' = exitCode
\* os.Exit(code); log.Fatalf is os.Exit(1)
Exit(code) == pc' = "exit" /\ exitCode' = code
\* an unrecovered panic in main: exit status 2
Panic == pc' = "exit" /\ exitCode' = 2

\* mutant of Quit: termbox.Close() is not called
Quit_M(d, cl, open) ==
  IF d.events = 0 \/ d.events \in cl
  THEN [d |-> d, closed |-> cl, termOpen |-> open, panic |-> TRUE]
  ELSE [d |-> [d EXCEPT !.events = 0], closed |-> cl \union {d.events},
        termOpen |-> open, panic |-> FALSE]

\* Termbox.Quit: close(t.events); t.events = nil; termbox.Close().
\* close of a nil or closed channel panics before anything is changed.
Quit(d, cl, open) ==
  IF d.events = 0 \/ d.events \in cl
  THEN [d |-> d, closed |-> cl, termOpen |-> open, panic |-> TRUE]
  ELSE [d |-> [d EXCEPT !.events = 0], closed |-> cl \union {d.events},
        termOpen |-> FALSE, panic |-> FALSE]

\* mutant of ShowResult: the results are rendered when Process erred too
ShowResult_M(res, scr) == RenderResults(res.out, scr)

\* the else branch "err := display.RenderResults(out)" of Submit and the toggles
ShowResult(res, scr) == IF res.err THEN scr ELSE RenderResults(res.out, scr)

\* main.go 99-103: the initial draw; the error of RenderInput is dropped
InitialDraw ==
  /\ pc = "draw"
  /\ screen' = RenderResults(lastCall.out, RenderInput(display, screen))
  /\ \E flushOk \in BOOLEAN : IF flushOk THEN Continue ELSE Exit(1)
  /\ UNCHANGED <<display, termOpen, processor, jsonData, nchan, closed, action>>
  /\ UNCHANGED <<goVars, histVars, snaps, flushVars, callVars, ioVars>>

\* Termbox.Events, called at the top of every turn of the loop: a new channel
\* and a new goroutine
Events ==
  /\ pc = "events"
  /\ nchan' = nchan + 1
  /\ display' = [display EXCEPT !.events = nchan + 1]
  /\ pollers' = pollers + 1
  /\ pc' = "recv"
  /\ UNCHANGED <<screen, termOpen, processor, jsonData, closed, senders, recovered,
                 action, exitCode>>
  /\ UNCHANGED <<histVars, snaps, flushVars, callVars, ioVars>>

\* what main has before it at the moment it receives the action a: the
\* options, the results region of the grid, and whether the last evaluation
\* was a successful one of the present program under the present options
Snapshot(a) ==
  [action |-> a,
   processor |-> processor,
   frame |-> [y \in Rows \ {0} |-> screen.cells[y]],
   evaluated |-> /\ lastCall.program = display.Input
                 /\ lastCall.compact = processor.compact
                 /\ lastCall.raw = processor.raw
                 /\ ~lastCall.err]

\* the last two elements of a sequence
LastTwo(q) == IF Len(q) <= 2 THEN q ELSE SubSeq(q, Len(q) - 1, Len(q))

\* "action := <-display.Events()": main receives on the channel Events returned
\* from a goroutine whose send statement evaluated to that channel
Receive(s) ==
  /\ pc = "recv"
  /\ s \in senders /\ s.ch = display.events
  /\ action' = s.act
  /\ handled' = Append(handled, s.ev)
  /\ senders' = senders \ {s}
  /\ pollers' = pollers + 1
  /\ pc' = "handle"
  /\ UNCHANGED <<display, screen, termOpen, processor, jsonData, nchan, closed,
                 recovered, exitCode, polled, faults>>
  /\ UNCHANGED <<snaps, flushVars, callVars, ioVars>>

\* the same statement, with what main has before it noted in snaps
ReceiveNoted(s) ==
  /\ pc = "recv"
  /\ s \in senders /\ s.ch = display.events
  /\ action' = s.act
  /\ handled' = Append(handled, s.ev)
  /\ senders' = senders \ {s}
  /\ pollers' = pollers + 1
  /\ pc' = "handle"
  /\ snaps' = LastTwo(Append(snaps, Snapshot(s.act)))
  /\ UNCHANGED <<display, screen, termOpen, processor, jsonData, nchan, closed,
                 recovered, exitCode, polled, faults>>
  /\ UNCHANGED <<flushVars, callVars, ioVars>>


\* ------------------------------------------- the goroutines of Events
\* What termbox.PollEvent returns: a key (Key, or Ch for a character), or an
\* event of another type.  Characters: 'a', U+00E9 (two bytes in UTF-8).
Characters == {97, 233}
TermEvents ==
  [Type : {"EventKey"},
   Key : {"KeyEsc", "KeyCtrlE", "KeyCtrlP", "KeyCtrlR", "KeyCtrlS", "KeyEnter",
          "KeyBackspace", "KeySpace", "KeyArrowUp"},
   Ch : {0}]
  \union [Type : {"EventKey"}, Key : {"0"}, Ch : Characters]
  \union [Type : {"EventResize"}, Key : {"0"}, Ch : {0}]

\* The switch of Events on one event, reading t.SaveInputMode: the action to
\* send (send = FALSE: none) and the rune to put in t.newInput (0: none)
Classify(ev, d) ==
  LET none == [send |-> FALSE, act |-> ActionExit, stage |-> 0]
      act(a) == [send |-> TRUE, act |-> a, stage |-> 0]
  IN IF ev.Type # "EventKey" THEN none
     ELSE CASE ev.Key = "KeyEsc" -> act(ActionExit)
            [] ev.Key = "KeyCtrlE" -> act(ActionToggleCompact)
            [] ev.Key = "KeyCtrlP" -> act(ActionPrint)
            [] ev.Key = "KeyCtrlR" -> act(ActionToggleRaw)
            [] ev.Key = "KeyCtrlS" -> act(ActionSavePrompt)
            [] ev.Key = "KeyEnter" ->
                 IF d.SaveInputMode THEN act(ActionSaveSubmit) ELSE act(ActionSubmit)
            [] ev.Key = "KeyBackspace" ->
                 IF d.SaveInputMode THEN act(ActionSavePromptBackspace)
                 ELSE act(ActionInputBackspace)
            [] ev.Key = "KeySpace" ->
                 [send |-> TRUE, act |-> ActionInput, stage |-> 32]
            [] OTHER ->
                 IF ev.Ch # 0
                 THEN [send |-> TRUE,
                       act |-> IF d.SaveInputMode THEN ActionSaveInput ELSE ActionInput,
                       stage |-> ev.Ch]
                 ELSE none

\* channel of a send statement whose channel operand is not evaluated yet
NotEvaluated == -1

\* One turn of the for loop of the goroutine up to its send statement:
\* PollEvent returns ev, the switch classifies it and stages the rune.
\* The terminal delivers events while it is open.
PollEvent(ev) ==
  /\ pc # "exit" /\ termOpen
  /\ pollers > 0
  /\ polled' = polled + 1
  /\ LET c == Classify(ev, display)
     IN /\ display' = IF c.stage # 0 THEN [display EXCEPT !.newInput = c.stage]
                      ELSE display
        /\ IF c.send
           THEN /\ senders' = senders \union
                        {[ev |-> polled + 1, act |-> c.act, ch |-> NotEvaluated]}
                /\ pollers' = pollers - 1
           ELSE UNCHANGED <<senders, pollers>>
  /\ UNCHANGED <<screen, termOpen, processor, jsonData, nchan, closed, recovered,
                 pc, action, exitCode, faults, handled>>
  /\ UNCHANGED <<snaps, flushVars, callVars, ioVars>>

\* termbox.PollEvent panics: the deferred function recovers, logs, and the
\* goroutine returns
PollFault ==
  /\ pc # "exit" /\ termOpen
  /\ pollers > 0 /\ faults < MaxFaults
  /\ faults' = faults + 1
  /\ pollers' = pollers - 1
  /\ recovered' = recovered + 1
  /\ UNCHANGED <<display, screen, termOpen, processor, jsonData, nchan, closed,
                 senders, pc, action, exitCode, polled, handled>>
  /\ UNCHANGED <<snaps, flushVars, callVars, ioVars>>

\* "t.events <- a": the channel operand is evaluated
EvalChan(s) ==
  /\ pc # "exit"
  /\ s \in senders /\ s.ch = NotEvaluated
  /\ senders' = (senders \ {s}) \union {[s EXCEPT !.ch = display.events]}
  /\ UNCHANGED <<display, screen, termOpen, processor, jsonData, nchan, closed,
                 pollers, recovered, pc, action, exitCode>>
  /\ UNCHANGED <<histVars, snaps, flushVars, callVars, ioVars>>

\* mutant of SendOnClosed: the panic of the send is not recovered
SendOnClosed_M(s) ==
  /\ pc # "exit"
  /\ s \in senders /\ s.ch \in closed
  /\ senders' = senders \ {s}
  /\ Panic
  /\ UNCHANGED <<display, screen, termOpen, processor, jsonData, nchan, closed,
                 pollers, recovered, action>>
  /\ UNCHANGED <<histVars, snaps, flushVars, callVars, ioVars>>

\* a send on a closed channel panics: the deferred function recovers and the
\* goroutine returns
SendOnClosed(s) ==
  /\ pc # "exit"
  /\ s \in senders /\ s.ch \in closed
  /\ senders' = senders \ {s}
  /\ recovered' = recovered + 1
  /\ UNCHANGED <<display, screen, termOpen, processor, jsonData, nchan, closed,
                 pollers, pc, action, exitCode>>
  /\ UNCHANGED <<histVars, snaps, flushVars, callVars, ioVars>>


\* ------------------------------------------------- main: the switch cases
\* nCalls and lastCall after a call of Process with arguments a and result res
Called(sh, a, res, d, open) ==
  /\ nCalls' = nCalls + 1
  /\ lastCall' = CallRecord(sh, a, res, d, open)

\* case ui.ActionInputBackspace
HandleInputBackspace ==
  /\ pc = "handle" /\ action = ActionInputBackspace
  /\ display' = UpdateInputBackspace(display)
  /\ screen' = RenderInput(display', screen)
  /\ Continue
  /\ UNCHANGED <<termOpen, processor, jsonData, nchan, closed, action>>
  /\ UNCHANGED <<goVars, histVars, snaps, flushVars, callVars, ioVars>>

\* case ui.ActionExit
HandleExit ==
  /\ pc = "handle" /\ action = ActionExit
  /\ LET q == Quit(display, closed, termOpen)
     IN /\ display' = q.d /\ closed' = q.closed /\ termOpen' = q.termOpen
        /\ IF q.panic THEN Panic ELSE Exit(0)
  /\ UNCHANGED <<screen, processor, jsonData, nchan, action>>
  /\ UNCHANGED <<goVars, histVars, snaps, flushVars, callVars, ioVars>>

\* mutant of HandleInput: the program is evaluated at every character
HandleInput_M ==
  /\ pc = "handle" /\ action = ActionInput
  /\ display' = UpdateInput(display)
  /\ LET a == ProcessArgs(jsonData, display')
         res == Process(processor, a.source, a.program)
     IN /\ Called(processor, a, res, display', termOpen)
        /\ screen' = ShowResult(res, RenderInput(display', screen))
  /\ Continue
  /\ UNCHANGED <<termOpen, processor, jsonData, nchan, closed, action>>
  /\ UNCHANGED <<goVars, histVars, snaps, flushVars, ioVars>>

\* case ui.ActionInput
HandleInput ==
  /\ pc = "handle" /\ action = ActionInput
  /\ display' = UpdateInput(display)
  /\ screen' = RenderInput(display', screen)
  /\ Continue
  /\ UNCHANGED <<termOpen, processor, jsonData, nchan, closed, action>>
  /\ UNCHANGED <<goVars, histVars, snaps, flushVars, callVars, ioVars>>

\* "display.Quit()", the first statement of the cases ui.ActionPrint and
\* ui.ActionSaveSubmit; the call of Process that follows runs the jq binary
HandleQuit ==
  /\ pc = "handle" /\ action \in {ActionPrint, ActionSaveSubmit}
  /\ LET q == Quit(display, closed, termOpen)
     IN /\ display' = q.d /\ closed' = q.closed /\ termOpen' = q.termOpen
        /\ IF q.panic THEN Panic ELSE pc' = "quit" /\ exitCode' = exitCode
  /\ UNCHANGED <<screen, processor, jsonData, nchan, action>>
  /\ UNCHANGED <<goVars, histVars, snaps, flushVars, callVars, ioVars>>

\* case ui.ActionPrint, after Quit; the error of io.Copy is dropped
HandlePrint ==
  /\ pc = "quit" /\ action = ActionPrint
  /\ LET a == ProcessArgs(jsonData, display)
         res == Process(processor, a.source, a.program)
     IN /\ Called(processor, a, res, display, termOpen)
        /\ IF res.err
           THEN Exit(1) /\ stdout' = stdout
           ELSE Exit(0) /\ stdout' = stdout \o res.out
  /\ UNCHANGED <<display, screen, termOpen, processor, jsonData, nchan, closed,
                 action, fs>>
  /\ UNCHANGED <<goVars, histVars, snaps, flushVars>>

\* case ui.ActionSaveInput; the error of RenderFilePrompt is dropped
HandleSaveInput ==
  /\ pc = "handle" /\ action = ActionSaveInput
  /\ display' = UpdateSaveInput(display)
  /\ screen' = RenderFilePrompt(display', screen)
  /\ Continue
  /\ UNCHANGED <<termOpen, processor, jsonData, nchan, closed, action>>
  /\ UNCHANGED <<goVars, histVars, snaps, flushVars, callVars, ioVars>>

\* case ui.ActionSavePrompt
HandleSavePrompt ==
  /\ pc = "handle" /\ action = ActionSavePrompt
  /\ display' = [display EXCEPT !.SaveInputMode = TRUE]
  /\ screen' = RenderFilePrompt(display', screen)
  /\ \E flushOk \in BOOLEAN : IF flushOk THEN Continue ELSE Exit(1)
  /\ UNCHANGED <<termOpen, processor, jsonData, nchan, closed, action>>
  /\ UNCHANGED <<goVars, histVars, snaps, flushVars, callVars, ioVars>>

\* case ui.ActionSavePromptBackspace
HandleSavePromptBackspace ==
  /\ pc = "handle" /\ action = ActionSavePromptBackspace
  /\ display' = UpdateSaveInputBackspace(display)
  /\ screen' = RenderFilePrompt(display', screen)
  /\ Continue
  /\ UNCHANGED <<termOpen, processor, jsonData, nchan, closed, action>>
  /\ UNCHANGED <<goVars, histVars, snaps, flushVars, callVars, ioVars>>

\* case ui.ActionSaveSubmit, after Quit: os.OpenFile with O_CREATE|O_TRUNC,
\* Process, io.Copy.  When Process errs nothing follows in the case.
HandleSaveSubmit ==
  /\ pc = "quit" /\ action = ActionSaveSubmit
  /\ LET path == SaveFile(display)
         a == ProcessArgs(jsonData, display)
         res == Process(processor, a.source, a.program)
         opened == [p \in DOMAIN fs \union {path} |-> IF p = path THEN <<>> ELSE fs[p]]
     IN \E openOk \in BOOLEAN, copyOk \in BOOLEAN :
          IF ~openOk \/ IsDir(path)
          THEN Exit(1) /\ UNCHANGED <<callVars, fs>>
          ELSE /\ Called(processor, a, res, display, termOpen)
               /\ IF res.err THEN Continue /\ fs' = opened
                  ELSE IF copyOk
                       THEN Exit(0) /\ fs' = [opened EXCEPT ![path] = res.out]
                       ELSE Exit(1) /\ fs' = opened
  /\ UNCHANGED <<display, screen, termOpen, processor, jsonData, nchan, closed,
                 action, stdout>>
  /\ UNCHANGED <<goVars, histVars, snaps, flushVars>>

\* the part Submit and the toggles share: Process with the options sh, then
\* RenderResults when it succeeded, log.Fatalf when RenderResults fails
Evaluate(sh) ==
  LET a == ProcessArgs(jsonData, display)
      res == Process(sh, a.source, a.program)
  IN /\ Called(sh, a, res, display, termOpen)
     /\ screen' = ShowResult(res, screen)
     /\ \E flushOk \in BOOLEAN : IF res.err \/ flushOk THEN Continue ELSE Exit(1)

\* case ui.ActionToggleCompact
HandleToggleCompact ==
  /\ pc = "handle" /\ action = ActionToggleCompact
  /\ processor' = ToggleCompact(processor)
  /\ Evaluate(processor')
  /\ UNCHANGED <<display, termOpen, jsonData, nchan, closed, action>>
  /\ UNCHANGED <<goVars, histVars, snaps, flushVars, ioVars>>

\* case ui.ActionToggleRaw
HandleToggleRaw ==
  /\ pc = "handle" /\ action = ActionToggleRaw
  /\ processor' = ToggleRaw(processor)
  /\ Evaluate(processor')
  /\ UNCHANGED <<display, termOpen, jsonData, nchan, closed, action>>
  /\ UNCHANGED <<goVars, histVars, snaps, flushVars, ioVars>>

\* mutant of HandleSubmit: Submit flips compact before it evaluates
HandleSubmit_M ==
  /\ pc = "handle" /\ action = ActionSubmit
  /\ processor' = ToggleCompact(processor)
  /\ Evaluate(processor')
  /\ UNCHANGED <<display, termOpen, jsonData, nchan, closed, action>>
  /\ UNCHANGED <<goVars, histVars, snaps, flushVars, ioVars>>

\* case ui.ActionSubmit
HandleSubmit ==
  /\ pc = "handle" /\ action = ActionSubmit
  /\ processor' = processor
  /\ Evaluate(processor)
  /\ UNCHANGED <<display, termOpen, jsonData, nchan, closed, action>>
  /\ UNCHANGED <<goVars, histVars, snaps, flushVars, ioVars>>

\* the steps of the goroutines of Events
Goroutines ==
  \/ PollFault
  \/ \E s \in senders : EvalChan(s)
  \/ \E s \in senders : SendOnClosed(s)

\* the steps of main outside the switch
Loop ==
  \/ InitialDraw
  \/ Events
  \/ \E s \in senders : Receive(s)

Next ==
  \/ Loop
  \/ Goroutines
  \/ \E ev \in TermEvents : polled < MaxKeys /\ PollEvent(ev)
  \/ HandleInputBackspace
  \/ HandleExit
  \/ HandleInput
  \/ HandleQuit
  \/ HandlePrint
  \/ HandleSaveInput
  \/ HandleSavePrompt
  \/ HandleSavePromptBackspace
  \/ HandleSaveSubmit
  \/ HandleToggleCompact
  \/ HandleToggleRaw
  \/ HandleSubmit

Spec == Init /\ [][Next]_vars

\* A session in which the user saves: the keys pressed are the save-prompt
\* key, Enter, the characters and Esc.
MaxSaveKeys == 4
SaveEvents ==
  {ev \in TermEvents : ev.Key \in {"KeyCtrlS", "KeyEnter", "KeyEsc"} \/ ev.Ch # 0}

NextSave ==
  \/ Loop
  \/ Goroutines
  \/ \E ev \in SaveEvents : polled < MaxSaveKeys /\ PollEvent(ev)
  \/ HandleExit
  \/ HandleInput
  \/ HandleQuit
  \/ HandleSaveInput
  \/ HandleSavePrompt
  \/ HandleSaveSubmit
  \/ HandleSubmit

SpecSave == Init /\ [][NextSave]_vars

\* A session that goes on after a save whose evaluation failed: the keys
\* pressed are U+00E9, the save-prompt key and Enter; jq-live was started
\* without -c and -r, and no key of the session changes the options.
MaxQuitKeys == 5
QuitEvents ==
  {ev \in TermEvents : ev.Key \in {"KeyCtrlS", "KeyEnter"} \/ ev.Ch = 233}

NextQuit ==
  \/ Loop
  \/ \E s \in senders : EvalChan(s)
  \/ \E s \in senders : SendOnClosed(s)
  \/ \E ev \in QuitEvents : polled < MaxQuitKeys /\ PollEvent(ev)
  \/ HandleInput
  \/ HandleQuit
  \/ HandleSaveInput
  \/ HandleSavePrompt
  \/ HandleSaveSubmit
  \/ HandleSubmit

InitQuit == Init /\ processor = [compact |-> FALSE, raw |-> FALSE]

SpecQuit == InitQuit /\ [][NextQuit]_vars

\* A session of edits and evaluations: the keys pressed are the characters,
\* Backspace, Enter and the compact key; main notes what it has before it at
\* each action it receives.
MaxTwiceKeys == 3
TwiceEvents ==
  {ev \in TermEvents : ev.Key \in {"KeyCtrlE", "KeyEnter", "KeyBackspace"} \/ ev.Ch # 0}

NextTwice ==
  \/ InitialDraw
  \/ Events
  \/ \E s \in senders : ReceiveNoted(s)
  \/ PollFault
  \/ \E s \in senders : EvalChan(s)
  \/ \E ev \in TwiceEvents : polled < MaxTwiceKeys /\ PollEvent(ev)
  \/ HandleInputBackspace
  \/ HandleInput
  \/ HandleToggleCompact
  \/ HandleSubmit

SpecTwice == Init /\ [][NextTwice]_vars


\* ------------------------------------------------------------ the claims
\* the code points of a string, as "for _, r := range s" yields them
RECURSIVE Runes(_, _)
Runes(s, i) ==
  IF i > Len(s) THEN <<>>
  ELSE LET t == ScanRune(s, i) IN <<t.r>> \o Runes(s, i + t.adv)

\* a sequence without its last element; the empty sequence stays empty
DropLast(q) == IF q = <<>> THEN q ELSE SubSeq(q, 1, Len(q) - 1)

\* the results region of the grid: every row below row 0
Results(scr) == [y \in Rows \ {0} |-> scr.cells[y]]

\* main leaves the switch case of the action a in this step
Handles(a) == pc = "handle" /\ action = a /\ pc' # "handle"

EditActions ==
  {ActionInput, ActionInputBackspace, ActionSavePrompt, ActionSaveInput,
   ActionSavePromptBackspace}
EvalActions ==
  {ActionSubmit, ActionToggleCompact, ActionToggleRaw, ActionPrint, ActionSaveSubmit}

\* C1: in Program mode, handling Backspace removes exactly the last code point
\* of the program (nothing when it is empty) and handling Commit(ch) appends
\* exactly the code point ch, so the program is always the committed
\* characters in order.
C1_ProgramIsCommittedRunes ==
  [][~display.SaveInputMode =>
       /\ Handles(ActionInputBackspace) =>
            Runes(display'.Input, 1) = DropLast(Runes(display.Input, 1))
       /\ (Handles(ActionInput) /\ display.newInput # 0) =>
            Runes(display'.Input, 1) = Append(Runes(display.Input, 1), display.newInput)
    ]_vars

\* C2: when Process returns an error for Submit, ToggleCompact or ToggleRaw,
\* the results region of the grid, the program, the mode and the save path
\* are as before the action and main goes on to the next turn of the loop.
C2_ErrorKeepsResults ==
  [][(/\ pc = "handle"
      /\ action \in {ActionSubmit, ActionToggleCompact, ActionToggleRaw}
      /\ nCalls' = nCalls + 1 /\ lastCall'.err)
     => /\ Results(screen') = Results(screen)
        /\ display'.Input = display.Input
        /\ display'.SaveInputMode = display.SaveInputMode
        /\ display'.SavePath = display.SavePath
        /\ pc' = "events"
    ]_vars

\* C2 witness: a Submit whose evaluation failed has been handled while results
\* were on the screen
C2_Witness ==
  /\ pc = "events" /\ action = ActionSubmit
  /\ nCalls > 1 /\ lastCall.err
  /\ screen.cells[1][0] # 0

\* C3: handling Commit, Backspace, EnterSavePrompt, SaveCommit or SaveBackspace
\* calls Process not at all and changes no cell below row 0; the number of
\* calls of Process changes only in the cases of Submit, ToggleCompact,
\* ToggleRaw, Print and SaveSubmit.
C3_EditsDoNotEvaluate ==
  [][/\ (\E a \in EditActions : Handles(a)) =>
          nCalls' = nCalls /\ Results(screen') = Results(screen)
     /\ nCalls' # nCalls => (pc \in {"handle", "quit"} /\ action \in EvalActions)
    ]_vars

\* C3 witness: two characters were typed and appended, one call of Process
\* (the first parse) so far, results on the screen
C3_Witness ==
  /\ pc = "events" /\ action = ActionInput
  /\ Len(handled) = 2 /\ Len(display.Input) >= 3
  /\ nCalls = 1
  /\ screen.cells[1][0] # 0

\* C4: every call of Process gets the document read at startup, which no step
\* changes, and the program as it is when the action is handled.
C4_OriginalDocCurrentProgram ==
  [][/\ jsonData' = jsonData /\ jsonData = Doc
     /\ nCalls' # nCalls =>
          lastCall'.source = Doc /\ lastCall'.program = display.Input
    ]_vars

\* C4 witness: the third call of Process, on an edited program, after an
\* earlier call printed something else than the document
C4_Witness ==
  /\ nCalls = 3 /\ ~lastCall.err
  /\ lastCall.program = <<46, 97>>
  /\ lastCall.out # Doc

\* C5: handling ToggleRaw inverts raw and leaves compact as it is, handling
\* ToggleCompact inverts compact and leaves raw as it is, and the call of
\* Process that follows reads the new values.
C5_TogglesFlipTheirOwnOption ==
  [][/\ Handles(ActionToggleRaw) =>
          /\ processor'.raw = ~processor.raw
          /\ processor'.compact = processor.compact
          /\ lastCall'.raw = processor'.raw
     /\ Handles(ActionToggleCompact) =>
          /\ processor'.compact = ~processor.compact
          /\ processor'.raw = processor.raw
          /\ lastCall'.compact = processor'.compact
    ]_vars

\* C6: after a fault of PollEvent the Event Source still polls: while main
\* waits for an action and the terminal is open, some goroutine of Events is
\* inside PollEvent or at a send that main can receive.
C6_PollingResumesAfterFault ==
  (faults > 0 /\ pc = "recv" /\ termOpen) =>
    \/ pollers > 0
    \/ \E s \in senders : s.ch \in {NotEvaluated, display.events}

\* C7: main receives the actions in the order PollEvent returned their events,
\* each at most once.
C7_HandledInPollOrder ==
  \A i \in DOMAIN handled : \A j \in DOMAIN handled :
    i < j => handled[i] < handled[j]

\* C8: the case of SaveSubmit always ends the process: with status 0 after the
\* result of Process for the program was written to the save file, with another
\* status when the file cannot be opened or written or when Process errs.
C8_SaveSubmitAlwaysExits ==
  [][(pc = "quit" /\ action = ActionSaveSubmit /\ pc' # "quit")
     => /\ pc' = "exit"
        /\ exitCode' = 0 =>
             /\ nCalls' = nCalls + 1 /\ ~lastCall'.err
             /\ lastCall'.program = display.Input
             /\ fs'[SaveFile(display)] = lastCall'.out
        /\ (nCalls' # nCalls /\ lastCall'.err) => exitCode' # 0
    ]_vars

\* C9: whenever the process has exited after the terminal was acquired, the
\* terminal has been released.
C9_TerminalReleasedOnExit == pc = "exit" => ~termOpen

RenderLines ==
  {<<>>, <<97>>, <<97, 98>>, <<195, 169, 97>>, [i \in 1 .. GridW |-> 98]}

RECURSIVE JoinLines(_)
JoinLines(ls) ==
  IF ls = <<>> THEN <<>> ELSE Head(ls) \o <<10>> \o JoinLines(Tail(ls))

RenderData ==
  LET seqs == UNION {[1 .. n -> RenderLines] : n \in 0 .. (GridH - 2)}
  IN {JoinLines(ls) : ls \in seqs}
     \union {DropLast(JoinLines(ls)) : ls \in seqs \ {<<>>}}

\* "err := display.RenderResults(out)" with out any stream of RenderData: the
\* evaluator is opaque, its output is not only what jq prints for Doc
RenderStep(data) ==
  /\ pc = "events"
  /\ lastCall' = [lastCall EXCEPT !.out = data, !.err = FALSE]
  /\ screen' = RenderResults(data, screen)
  /\ UNCHANGED <<display, termOpen, processor, jsonData, nchan, closed, pc, action,
                 exitCode, nCalls>>
  /\ UNCHANGED <<goVars, histVars, snaps, flushVars, ioVars>>

NextRender ==
  \/ InitialDraw
  \/ \E data \in RenderData : RenderStep(data)

SpecRender == Init /\ [][NextRender]_vars

\* the lines of a byte stream split on line breaks; a line break at the end
\* of the stream ends the last line and starts none
RECURSIVE SplitLines(_, _)
SplitLines(data, i) ==
  IF i > Len(data) THEN <<>>
  ELSE LET nl == IndexNL(data, i)
       IN IF nl = 0 THEN <<SubSeq(data, i, Len(data))>>
          ELSE <<SubSeq(data, i, nl - 1)>> \o SplitLines(data, nl + 1)

\* a row holding the code points of text from column 0 on, blank after them
TextRow(text) ==
  LET rs == Runes(text, 1)
  IN [x \in Cols |-> IF x + 1 <= Len(rs) THEN rs[x + 1] ELSE 0]

\* the results region C11 states for a stream
ExpectedResults(data) ==
  LET ls == SplitLines(data, 1)
  IN [y \in Rows \ {0} |-> IF y <= Len(ls) THEN TextRow(ls[y]) ELSE TextRow(<<>>)]

\* N lines, N less than the grid height, each no wider than the grid
FitsGrid(data) ==
  LET ls == SplitLines(data, 1)
  IN /\ Len(ls) < GridH
     /\ \A k \in DOMAIN ls : Len(Runes(ls[k], 1)) <= GridW

\* C11: RenderResults on a stream of N lines that fit the grid leaves rows
\* 1..N holding exactly the text of the lines, blank after the text, every
\* row after N blank, and row 0 as it was, whether or not the last line ends
\* with a line break.
C11_ResultsAreTheLines ==
  [][(pc = "events" /\ pc' = "events" /\ FitsGrid(lastCall'.out))
     => /\ Results(screen') = ExpectedResults(lastCall'.out)
        /\ screen'.cells[0] = screen.cells[0]
    ]_vars

\* main has just left the switch for the second of two consecutive actions a
TwoInARow(a) ==
  /\ Handles(a)
  /\ Len(snaps) = 2
  /\ snaps[1].action = a

\* C12 as stated: two consecutive ToggleCompact actions restore compact and
\* raw, and the results frame after the second is the frame shown before
\* the first.
C12_TwoTogglesRestoreFrame ==
  [][TwoInARow(ActionToggleCompact)
     => /\ processor' = snaps[1].processor
        /\ Results(screen') = snaps[1].frame
    ]_vars

\* C12: two consecutive ToggleCompact actions restore compact and raw; the
\* results frame after the second is the frame shown before the first when
\* that frame came from a successful evaluation of the present program under
\* the options of that moment.
C12_TwoTogglesRestore ==
  [][TwoInARow(ActionToggleCompact)
     => /\ processor' = snaps[1].processor
        /\ snaps[1].evaluated => Results(screen') = snaps[1].frame
    ]_vars

\* two ToggleCompact actions were handled one after the other, the first
\* changed the frame and the second brought the earlier frame back
C12_Witness ==
  /\ pc = "events"
  /\ Len(snaps) = 2
  /\ snaps[1].action = ActionToggleCompact /\ snaps[2].action = ActionToggleCompact
  /\ snaps[1].evaluated
  /\ snaps[2].frame # snaps[1].frame
  /\ Results(screen) = snaps[1].frame
  /\ processor = snaps[1].processor

\* C13: handling Submit twice in a row, the program and the options being the
\* same, gives the same results frame both times: the second Submit changes
\* no cell of the grid.
C13_SecondSubmitChangesNothing ==
  [][TwoInARow(ActionSubmit) => screen'.cells = screen.cells]_vars

\* Submit was handled twice in a row, and the first one drew a new frame
C13_Witness ==
  /\ pc = "events"
  /\ Len(snaps) = 2
  /\ snaps[1].action = ActionSubmit /\ snaps[2].action = ActionSubmit
  /\ snaps[2].frame # snaps[1].frame
  /\ Results(screen) = snaps[2].frame

\* the keys C14 is about: Enter, Backspace, and the printable characters,
\* the space among them
Printable(ev) == ev.Type = "EventKey" /\ (ev.Ch # 0 \/ ev.Key = "KeySpace")
ModeKeys ==
  {ev \in TermEvents : ev.Key \in {"KeyEnter", "KeyBackspace"} \/ Printable(ev)}

\* the action C14 states for a key of ModeKeys
ActionByMode(ev, saveMode) ==
  CASE ev.Key = "KeyEnter" -> IF saveMode THEN ActionSaveSubmit ELSE ActionSubmit
    [] ev.Key = "KeyBackspace" ->
         IF saveMode THEN ActionSavePromptBackspace ELSE ActionInputBackspace
    [] OTHER -> IF saveMode THEN ActionSaveInput ELSE ActionInput

\* C14: the goroutine of Events classifies a key by the mode: Enter gives
\* Submit or SaveSubmit, Backspace gives InputBackspace or
\* SavePromptBackspace, a printable character, the space included, gives
\* Input or SaveInput, the second of each pair in the save-path mode.
C14_ClassifiedByMode ==
  [][\A ev \in ModeKeys :
       PollEvent(ev)
       => \A s \in senders' \ senders :
            s.act = ActionByMode(ev, display.SaveInputMode)
    ]_vars

\* C15: once main has handled the save-prompt action (the mode is the
\* save-path mode), no step changes the program, whatever the interleaving
\* of the goroutines of Events and main.
C15_ProgramFrozenInSaveMode ==
  [][display.SaveInputMode => display'.Input = display.Input]_vars

\* C16: handling the save-prompt action sets the save-path mode and empties
\* the save path, whatever it held before.
C16_SavePromptResetsPath ==
  [][Handles(ActionSavePrompt)
     => display'.SaveInputMode /\ display'.SavePath = <<>>
    ]_vars

\* C17: throughout a session there is one goroutine of Events and one
\* channel: with main that makes two tasks, and handling an action makes no
\* further channel and starts no further polling goroutine.
C17_OneSourceOneChannel ==
  /\ nchan <= 1
  /\ pollers + Cardinality(senders) <= 1

\* C18: after RenderInput in the program mode, row 0 holds the code points of
\* the program from column 0 on in adjacent columns, every other column of
\* row 0 is blank, and the cursor is at the column after the last written
\* cell; this for a program with multi-byte characters and for one shorter
\* than the program rendered before.
C18_InputRowIsTheProgram ==
  [][((Handles(ActionInput) \/ Handles(ActionInputBackspace))
        /\ ~display'.SaveInputMode)
     => /\ screen'.cells[0] = TextRow(display'.Input)
        /\ screen'.cursor = <<Len(Runes(display'.Input, 1)), 0>>
    ]_vars

\* ------------------------------------------------- ui.go: Termbox.Flush
\* Goroutines that call Termbox.Flush at the same time.  Position of a call:
\* "idle" (no call), "lock" (at t.flushLock.Lock()), "flush" (inside
\* termbox.Flush), "unlock" (termbox.Flush returned or panicked, the deferred
\* Unlock is next).
mainVars ==
  <<display, screen, termOpen, processor, jsonData, nchan, closed, pollers,
    senders, recovered, pc, action, exitCode, stdout, fs, polled, faults,
    handled, nCalls, lastCall, snaps>>

\* a goroutine calls t.Flush()
Flush(c) ==
  /\ flushers[c] = "idle" /\ flushCalls[c] < MaxFlushCalls
  /\ flushers' = [flushers EXCEPT ![c] = "lock"]
  /\ UNCHANGED <<flushLock, flushCalls, mainVars>>

\* mutant of Lock: Lock returns whether or not the mutex is held
Lock_M(c) ==
  /\ flushers[c] = "lock"
  /\ flushLock' = TRUE
  /\ flushers' = [flushers EXCEPT ![c] = "flush"]
  /\ UNCHANGED <<flushCalls, mainVars>>

\* t.flushLock.Lock(): returns once the mutex is free, holding it
Lock(c) ==
  /\ flushers[c] = "lock" /\ ~flushLock
  /\ flushLock' = TRUE
  /\ flushers' = [flushers EXCEPT ![c] = "flush"]
  /\ UNCHANGED <<flushCalls, mainVars>>

\* "return termbox.Flush()": termbox.Flush returns, with an error or none,
\* or panics; in each case the deferred call runs next
TermboxFlush(c) ==
  /\ flushers[c] = "flush"
  /\ flushers' = [flushers EXCEPT ![c] = "unlock"]
  /\ UNCHANGED <<flushLock, flushCalls, mainVars>>

\* "defer t.flushLock.Unlock()", and Flush returns
Unlock(c) ==
  /\ flushers[c] = "unlock"
  /\ flushLock' = FALSE
  /\ flushers' = [flushers EXCEPT ![c] = "idle"]
  /\ flushCalls' = [flushCalls EXCEPT ![c] = @ + 1]
  /\ UNCHANGED mainVars

NextFlush ==
  \/ \E c \in FlushCallers : Flush(c)
  \/ \E c \in FlushCallers : Lock(c)
  \/ \E c \in FlushCallers : TermboxFlush(c)
  \/ \E c \in FlushCallers : Unlock(c)

\* termbox.Flush and Unlock end; a goroutine waiting in Lock gets the mutex
\* when it is freed again and again (sync.Mutex hands the mutex to a waiter
\* that has waited for more than 1 ms)
SpecFlush ==
  /\ Init /\ [][NextFlush]_vars
  /\ \A c \in FlushCallers :
       /\ WF_vars(TermboxFlush(c))
       /\ WF_vars(Unlock(c))
       /\ SF_vars(Lock(c))

\* C19: at most one call of termbox.Flush is in progress at any time, the
\* mutex is held only while a call of Termbox.Flush is between its Lock and
\* its return, and a call waiting in Lock gets into termbox.Flush.
C19_FlushExclusive ==
  /\ [](Cardinality({c \in FlushCallers : flushers[c] = "flush"}) <= 1)
  /\ [](flushLock <=> \E c \in FlushCallers : flushers[c] \in {"flush", "unlock"})
  /\ \A c \in FlushCallers : (flushers[c] = "lock") ~> (flushers[c] = "flush")

\* one call is inside termbox.Flush while another waits in Lock, after a call
\* that has returned
C19_Witness ==
  /\ flushers[1] = "flush"
  /\ flushers[2] = "lock"
  /\ flushCalls[2] > 0

\* C20: the rune a key event stages in t.newInput stays there until
\* UpdateInput or UpdateSaveInput reads it, whatever the interleaving of the
\* goroutines of Events and main: no key event stages a rune while the
\* register holds one, and the handling of ActionInput or ActionSaveInput
\* never finds the register empty, so each typed character is appended.
C20_RegisterHeldUntilRead ==
  [][/\ (\E ev \in TermEvents : Classify(ev, display).stage # 0 /\ PollEvent(ev))
          => display.newInput = 0
     /\ (Handles(ActionInput) \/ Handles(ActionSaveInput))
          => display.newInput # 0
    ]_vars

\* C21: when Process returns an error during the save-submit action, the
\* destination file is as it was before the action: neither created nor
\* truncated.
C21_FailedSaveKeepsFile ==
  [][(pc = "quit" /\ action = ActionSaveSubmit
        /\ nCalls' = nCalls + 1 /\ lastCall'.err)
     => fs' = fs
    ]_vars

\* the actions whose case calls display.Quit()
QuitActions == {ActionExit, ActionPrint, ActionSaveSubmit}

\* C22: Quit is always called with an events channel that is not nil and not
\* yet closed, also the second time after a save whose evaluation failed, so
\* main never panics in close; every goroutine of Events is polling, at its
\* send, or has ended through its recover handler, the ones that sent on a
\* closed channel among them, and none has crashed the process.
C22_QuitOnOpenChannel ==
  /\ (pc = "handle" /\ action \in QuitActions)
       => (display.events # 0 /\ display.events \notin closed)
  /\ exitCode # 2
  /\ nchan = pollers + Cardinality(senders) + recovered

\* Quit has run a second time, after a save whose evaluation failed
C22_Witness ==
  /\ Cardinality(closed) = 2
  /\ lastCall.err /\ ~lastCall.termOpen
  /\ action = ActionSaveSubmit /\ pc = "quit"

\* C23: the mode starts as the program mode; handling the save-prompt action
\* sets the save-path mode, and no step of the session sets SaveInputMode
\* back to false.
C23_SaveModeStays ==
  /\ ~display.SaveInputMode
  /\ [][/\ Handles(ActionSavePrompt) => display'.SaveInputMode
        /\ display.SaveInputMode => display'.SaveInputMode
       ]_vars

\* the save-prompt action was handled and another action has been handled
\* after it, in the save-path mode
C23_Witness ==
  /\ display.SaveInputMode
  /\ pc = "events"
  /\ action # ActionSavePrompt
  /\ Len(handled) >= 2

====
